---------------------------- MODULE Spec2Model ----------------------------
(***************************************************************************)
(* Model of youtube-dl-server.py: the download queue and its worker        *)
(* thread, submit_download, and the SanitizedFilenameTmpl sanitizer.       *)
(*                                                                         *)
(* Strings are sequences of characters; a character is a one-character     *)
(* TLA+ string, and a non-ASCII code point is written "U+XXXX".            *)
(***************************************************************************)
EXTENDS Integers, Sequences, FiniteSets, TLC

(***************************************************************************)
(* Bounds of the model.                                                    *)
(***************************************************************************)
\* longest metadata value enumerated exhaustively over SanAlphabet
MaxShort == 2
\* long titles have char_limit - 3 .. char_limit + MaxOver filler characters
MaxOver == 2
\* number of submit_download calls in one run of the server
MaxCalls == 2
MaxSpecLen == 3

(***************************************************************************)
(* Python built-ins used by the program.                                   *)
(***************************************************************************)
\* None, a value that equals no string and no other object
None == <<"None">>

Max(a, b) == IF a >= b THEN a ELSE b

\* c * n for a one-character string c
Rep(c, n) == [i \in 1..n |-> c]

\* s[:n] for 0 <= n
Take(s, n) == SubSeq(s, 1, IF n < Len(s) THEN n ELSE Len(s))

\* s[:-k]; for k = 0 Python evaluates s[:0], the empty string
DropLast(s, k) == IF k = 0 THEN <<>> ELSE Take(s, Max(0, Len(s) - k))

\* the characters str.strip() removes that the model's alphabet contains
Whitespace == {" ", "\t"}

RECURSIVE LStrip(_)
LStrip(s) ==
    IF s # <<>> /\ Head(s) \in Whitespace THEN LStrip(Tail(s)) ELSE s

RECURSIVE RStrip(_)
RStrip(s) ==
    IF s # <<>> /\ s[Len(s)] \in Whitespace
    THEN RStrip(SubSeq(s, 1, Len(s) - 1))
    ELSE s

\* str.strip()
Strip(s) == RStrip(LStrip(s))

\* "  " in s
HasDoubleSpace(s) ==
    \E t \in {s} : \E i \in 1..(Len(t) - 1) : t[i] = " " /\ t[i + 1] = " "

\* s.replace("  ", " "): one left-to-right pass over non-overlapping matches
\* (the recursion goes from one match to the next)
RECURSIVE ReplaceDoubleSpace(_)
ReplaceDoubleSpace(s) ==
    LET matches ==
            UNION {{i \in 1..(Len(t) - 1) : t[i] = " " /\ t[i + 1] = " "} :
                   t \in {s}}
    IN  IF matches = {} THEN s
        ELSE LET first == CHOOSE i \in matches : \A j \in matches : i <= j
             IN  SubSeq(s, 1, first - 1) \o <<" ">>
                     \o ReplaceDoubleSpace(SubSeq(s, first + 2, Len(s)))

\* ''.join of a sequence of strings (halving keeps the recursion shallow)
RECURSIVE Concat(_)
Concat(ss) ==
    IF ss = <<>> THEN <<>>
    ELSE IF Len(ss) = 1 THEN ss[1]
    ELSE CHOOSE joined \in
             {Concat(left) \o Concat(right) :
                  left \in {SubSeq(ss, 1, Len(ss) \div 2)},
                  right \in {SubSeq(ss, Len(ss) \div 2 + 1, Len(ss))}} : TRUE

(***************************************************************************)
(* SanitizedFilenameTmpl                                                   *)
(***************************************************************************)
ascii_letters ==
    {"a", "b", "c", "d", "e", "f", "g", "h", "i", "j", "k", "l", "m",
     "n", "o", "p", "q", "r", "s", "t", "u", "v", "w", "x", "y", "z",
     "A", "B", "C", "D", "E", "F", "G", "H", "I", "J", "K", "L", "M",
     "N", "O", "P", "Q", "R", "S", "T", "U", "V", "W", "X", "Y", "Z"}

digits == {"0", "1", "2", "3", "4", "5", "6", "7", "8", "9"}

whitelist == {"-", "_", ".", "(", ")", " "} \cup ascii_letters \cup digits
                 \cup {"'", "\""}

char_limit == 128

\* the code points of the model that are not ASCII
NonAscii == {"U+00E9", "U+00DC", "U+0301", "U+0308", "U+00A0", "U+65E5"}

\* unicodedata.normalize('NFKD', c) of one code point
NFKD(c) ==
    CASE c = "U+00E9" -> <<"e", "U+0301">>      \* e with acute
      [] c = "U+00DC" -> <<"U", "U+0308">>      \* U with diaeresis
      [] c = "U+00A0" -> <<" ">>                \* no-break space
      [] OTHER -> <<c>>

\* unicodedata.normalize('NFKD', val).encode('ASCII', 'ignore').decode()
AsciiEquivalent(val) ==
    LET IsAscii(c) == c \notin NonAscii
    IN  SelectSeq(Concat([i \in 1..Len(val) |-> NFKD(val[i])]), IsAscii)

\* ''.join(c for c in val if c in self.whitelist), with the whitelist faulty
WhitelistFilterNone(val) == val

\* ''.join(c for c in val if c in self.whitelist)
WhitelistFilter(val) ==
    LET Allowed(c) == c \in whitelist
    IN  SelectSeq(val, Allowed)

\* SanitizedFilenameTmpl._sanitize
_sanitize(val) == Strip(WhitelistFilter(AsciiEquivalent(val)))

\* '{title} [{id}]'
YDL_OUTPUT_TEMPLATE ==
    <<"{", "t", "i", "t", "l", "e", "}", " ", "[", "{", "i", "d", "}", "]">>

\* string.Formatter().parse(tmpl), flattened to a sequence of literal
\* characters and replacement fields ("{{" and "}}" are escaped braces; the
\* templates of the model carry no conversion and no format specification).
\* A field name is kept as the string of its characters.
Lit(c) == [kind |-> "lit", v |-> c]
Field(k) == [kind |-> "field", v |-> k]

RECURSIVE FieldEnd(_, _)
FieldEnd(tmpl, i) ==
    IF i > Len(tmpl) \/ tmpl[i] = "}" THEN i ELSE FieldEnd(tmpl, i + 1)

RECURSIVE FormatterParse(_)
FormatterParse(tmpl) ==
    IF tmpl = <<>> THEN <<>>
    ELSE IF Len(tmpl) >= 2 /\ tmpl[1] \in {"{", "}"} /\ tmpl[2] = tmpl[1]
         THEN <<Lit(tmpl[1])>> \o FormatterParse(SubSeq(tmpl, 3, Len(tmpl)))
    ELSE IF tmpl[1] = "{"
         THEN LET e == FieldEnd(tmpl, 2)
              IN  <<Field(SubSeq(tmpl, 2, e - 1))>>
                      \o FormatterParse(SubSeq(tmpl, e + 1, Len(tmpl)))
    ELSE IF tmpl[1] = "}"
         THEN <<Lit(tmpl[1])>> \o FormatterParse(Tail(tmpl))
    ELSE LET braces == {k \in 1..Len(tmpl) : tmpl[k] \in {"{", "}"}}
             n == IF braces = {} THEN Len(tmpl) + 1
                  ELSE CHOOSE k \in braces : \A j \in braces : k <= j
         IN  [k \in 1..(n - 1) |-> Lit(tmpl[k])]
                 \o FormatterParse(SubSeq(tmpl, n, Len(tmpl)))

\* keys = set(t[1] for t in Formatter().parse(tmpl) if t[1] is not None)
TmplKeys(tmpl) ==
    UNION {{parsed[i].v :
               i \in {j \in 1..Len(parsed) : parsed[j].kind = "field"}} :
           parsed \in {FormatterParse(tmpl)}}

\* the orders in which iterating the set `keys` can yield its elements
KeyOrders(tmpl) ==
    LET keys == TmplKeys(tmpl)
        n == Cardinality(keys)
    IN  {o \in [1..n -> keys] : \A i, j \in 1..n : i # j => o[i] # o[j]}

\* kwargs.get(key, '')
KwGet(kwargs, key) == IF key \in DOMAIN kwargs THEN kwargs[key] ELSE <<>>

\* sanitized_kwargs = {key: self._sanitize(kwargs.get(key, '')) for key in
\* keys}: a dict, i.e. the pairs in the iteration order of `keys`
SanitizedKwargs(kwargs, order) ==
    [i \in 1..Len(order) |->
        [key |-> order[i], val |-> _sanitize(KwGet(kwargs, order[i]))]]

\* sanitized_kwargs[key]
SanValue(san, key) ==
    LET i == CHOOSE j \in 1..Len(san) : san[j].key = key IN san[i].val

\* self._tmpl.format(**sanitized_kwargs)
TmplFormat(tmpl, san) ==
    CHOOSE filename \in
        {Concat([i \in 1..Len(parsed) |->
                    IF parsed[i].kind = "lit" THEN <<parsed[i].v>>
                    ELSE SanValue(san, parsed[i].v)]) :
         parsed \in {FormatterParse(tmpl)}} : TRUE

\* while "  " in filename: filename = filename.replace("  ", " ")
RECURSIVE CollapseSpaces(_)
CollapseSpaces(filename) ==
    IF HasDoubleSpace(filename)
    THEN CollapseSpaces(ReplaceDoubleSpace(filename))
    ELSE filename

\* the loop condition at line 516, off by one
TooLongOffByOne(filename) == Len(filename) > char_limit + 1

\* len(filename) > self.char_limit
TooLong(filename) == Len(filename) > char_limit

\* max(sanitized_kwargs.values(), key=len): the first longest value in the
\* dict's iteration order
LongestVal(san) ==
    LET i == CHOOSE j \in 1..Len(san) :
                 /\ \A k \in 1..Len(san) : Len(san[k].val) <= Len(san[j].val)
                 /\ \A k \in 1..(j - 1) : Len(san[k].val) < Len(san[j].val)
    IN  san[i].val

\* one pass of the body of the loop at lines 519-525: the new sanitized_kwargs
TruncateLongest(san, filename) ==
    LET len_overflow == Len(filename) - char_limit
        longest_val == LongestVal(san)
        shortened_val == Strip(DropLast(longest_val, len_overflow))
    IN  [i \in 1..Len(san) |->
            [key |-> san[i].key,
             val |-> IF san[i].val = longest_val THEN shortened_val
                     ELSE san[i].val]]

\* the loop at lines 516-526 run to its end: the final filename
RECURSIVE TruncateLoop(_, _, _)
TruncateLoop(tmpl, san, filename) ==
    IF TooLong(filename)
    THEN LET san2 == TruncateLongest(san, filename)
         IN  TruncateLoop(tmpl, san2, TmplFormat(tmpl, san2))
    ELSE filename

\* SanitizedFilenameTmpl(tmpl).format(**kwargs), when `keys` iterates in
\* `order`
Format(tmpl, kwargs, order) ==
    LET san == SanitizedKwargs(kwargs, order)
        filename == CollapseSpaces(TmplFormat(tmpl, san))
    IN  Strip(TruncateLoop(tmpl, san, filename))

(***************************************************************************)
(* Presets (module-level configuration)                                    *)
(***************************************************************************)
\* d.get(k, default) for a dict modelled as a function
DictGet(d, k, default) == IF k \in DOMAIN d THEN d[k] ELSE default

\* os.environ.get('YDL_DEFAULT_PRESET', 'normalmp4') with the variable unset
YDL_DEFAULT_PRESET == "normalmp4"

FORMATS ==
    [p \in {"smallmp4", "normalmp4", "bestmp4", "mp3"} |->
        CASE p = "smallmp4" -> "mp4[height<=480]/best[ext=mp4]"
          [] p = "normalmp4" -> "mp4[height<=720]/best[ext=mp4]"
          [] p = "bestmp4" ->
                 "bestvideo[ext=mp4]+bestaudio[ext=m4a]/best[ext=mp4]"
          [] p = "mp3" -> "bestaudio/best"]

\* POSTPROCESSORS as the module leaves it: a defaultdict(list) with one key
InitialPostprocessors ==
    [p \in {"mp3"} |->
        <<[key |-> "FFmpegExtractAudio", preferredcodec |-> "mp3",
           preferredquality |-> "192"]>>]

EXTENSIONS ==
    [p \in {"smallmp4", "normalmp4", "bestmp4", "mp3"} |->
        IF p = "mp3" THEN <<"m", "p", "3">> ELSE <<"m", "p", "4">>]

\* lines 424-429: the sanitized name + "." + ext
OutfileName(stem, preset) ==
    stem \o <<".">> \o DictGet(EXTENSIONS, preset, <<"m", "p", "4">>)

(***************************************************************************)
(* Tenants: process_users                                                  *)
(***************************************************************************)
\* s.split(sep) for a one-character separator
RECURSIVE Split(_, _)
Split(s, sep) ==
    LET at == {i \in 1..Len(s) : s[i] = sep}
    IN  IF at = {} THEN <<s>>
        ELSE LET first == CHOOSE i \in at : \A j \in at : i <= j
             IN  <<SubSeq(s, 1, first - 1)>>
                     \o Split(SubSeq(s, first + 1, Len(s)), sep)

\* the value of the environment variable YDL_USERS in the model:
\* 'a:s:/d:7:8;b:t:e:9;c:v'
YDL_USERS ==
    <<"a", ":", "s", ":", "/", "d", ":", "7", ":", "8", ";",
      "b", ":", "t", ":", "e", ":", "9", ";",
      "c", ":", "v">>

\* (spec + "::::").split(":")[:5]
SpecFields(spec) == Take(Split(spec \o <<":", ":", ":", ":">>, ":"), 5)

\* s.endswith("/") answering True for every string
EndsWithSlashAlways(s) == TRUE

\* s.endswith("/")
EndsWithSlash(s) == s # <<>> /\ s[Len(s)] = "/"

process_users(ydl_users) ==
    LET specs == Split(ydl_users, ";")
        fields == [i \in 1..Len(specs) |-> SpecFields(specs[i])]
        usernames == {fields[i][1] : i \in 1..Len(specs)}
        \* a later entry for the same username overwrites an earlier one
        last(u) == CHOOSE i \in 1..Len(specs) :
                       /\ fields[i][1] = u
                       /\ \A j \in 1..Len(specs) : fields[j][1] = u => j <= i
        outdir(u) == IF fields[last(u)][3] = <<>> THEN <<".", "/">>
                     ELSE fields[last(u)][3]
    IN  [tokens |-> [u \in usernames |-> fields[last(u)][2]],
         outdirs |-> [u \in usernames |->
                         IF EndsWithSlash(outdir(u)) THEN outdir(u)
                         ELSE outdir(u) \o <<"/">>],
         uids |-> [u \in usernames |->
                      IF fields[last(u)][4] = <<>> THEN None
                      ELSE fields[last(u)][4]],
         gids |-> [u \in usernames |->
                      IF fields[last(u)][5] = <<>> THEN None
                      ELSE fields[last(u)][5]]]

TOKENS == process_users(YDL_USERS).tokens
OUTDIRS == process_users(YDL_USERS).outdirs
UIDS == process_users(YDL_USERS).uids
GIDS == process_users(YDL_USERS).gids

(***************************************************************************)
(* pathlib                                                                 *)
(***************************************************************************)
\* sep.join(parts)
RECURSIVE Join(_, _)
Join(parts, sep) ==
    IF parts = <<>> THEN <<>>
    ELSE IF Len(parts) = 1 THEN parts[1]
    ELSE parts[1] \o <<sep>> \o Join(Tail(parts), sep)

\* Path(s): whether it is absolute, and its components ('' and '.' dropped)
PurePath(s) ==
    LET IsPart(c) == c # <<>> /\ c # <<".">>
    IN  [abs |-> s # <<>> /\ s[1] = "/",
         parts |-> SelectSeq(Split(s, "/"), IsPart)]

\* str(path)
PathStr(path) ==
    IF path.abs THEN <<"/">> \o Join(path.parts, "/")
    ELSE IF path.parts = <<>> THEN <<".">>
    ELSE Join(path.parts, "/")

\* str(Path(dir) / name)
PathJoin(dir, name) ==
    LET a == PurePath(dir)
        b == PurePath(name)
    IN  IF b.abs THEN PathStr(b)
        ELSE PathStr([abs |-> a.abs, parts |-> a.parts \o b.parts])

(***************************************************************************)
(* State                                                                   *)
(***************************************************************************)
VARIABLES
    \* one call of SanitizedFilenameTmpl(tmpl).format(**kwargs), followed by
    \* lines 424-429 of submit_download
    s_pc,           \* "call", "loop" (line 516), "returned", "outfile"
    s_tmpl,         \* self._tmpl
    s_kwargs,       \* kwargs
    s_order,        \* the order in which the set `keys` iterates
    s_san,          \* sanitized_kwargs
    s_filename,     \* filename
    s_out,          \* the value format returned
    s_outfile       \* outfile of submit_download, line 425

sanVars == <<s_pc, s_tmpl, s_kwargs, s_order, s_san, s_filename, s_out,
             s_outfile>>

VARIABLES
    DL_Q,           \* the items of the queue, oldest first
    POSTPROCESSORS, \* the defaultdict(list): preset => postprocessor settings
    calls,          \* the calls of submit_download, in the order they began
    results,        \* the dict each call that has returned has returned
    ydl_params,     \* ydl.params of the YoutubeDL instance of each call
    files,          \* the regular files in the output directories, by path
    w_pc,           \* dl_worker: "get" (line 541), "download" (548),
                    \* "chown" (549), "returned" (543)
    w_ydl,          \* the worker's ydl, username, url and outfile
    w_username,
    w_url,
    w_outfile,
    m_pc,           \* main: "serving" (APP.run), "join" (line 577)
    put_order,      \* history: the ydl of every item put, in put order
    get_order,      \* history: the ydl of every item the worker unpacked
    dl_log,         \* the records of the worker's logger, each with its ydl
    default_preset, \* the module global YDL_DEFAULT_PRESET (line 57)
    q_at_shutdown   \* history: the ydl of every item queued at line 576

pipeVars == <<DL_Q, POSTPROCESSORS, calls, results, ydl_params, files, w_pc,
              w_ydl, w_username, w_url, w_outfile, m_pc, put_order,
              get_order, dl_log, default_preset, q_at_shutdown>>

VARIABLES
    \* one call of process_users(ydl_users)
    u_pc,           \* "idle", "call", "done"
    u_spec,         \* ydl_users
    u_tables        \* the four dicts process_users returned

userVars == <<u_pc, u_spec, u_tables>>

VARIABLES
    \* the request the HTTP server is handling (one at a time)
    r_pc,           \* "idle", "is_authorized" (line 152), "sleep" (153),
                    \* "denied" (154), "authorized" (155),
                    \* "submit_download" (line 228)
    r_req,          \* the request: route, username, params or filename
    r_slept,        \* time.sleep(1) ran while the request was handled
    r_resp          \* the response to r_req, once sent

routeVars == <<r_pc, r_req, r_slept, r_resp>>

vars == <<sanVars, pipeVars, userVars, routeVars>>

(***************************************************************************)
(* The sanitizer, step by step                                             *)
(***************************************************************************)
K_title == <<"t", "i", "t", "l", "e">>
K_id == <<"i", "d">>

\* characters metadata values are built from: a letter, a space, an ASCII
\* character off the whitelist, a letter with an accent
SanAlphabet == {"a", " ", "/", "U+00E9"}

StrsUpTo(n) == UNION {[1..k -> SanAlphabet] : k \in 0..n}

\* what a long title starts and ends with
Affixes == {<<>>, <<"b", " ", " ">>, <<" ", " ", "c">>, <<"U+00E9", "/">>}

LongTitles ==
    {p \o Rep("x", n) \o q :
        p \in Affixes, q \in Affixes,
        n \in (char_limit - 3)..(char_limit + MaxOver)}

\* 'Cafe / Uberraschung' with its accents (Scenario A of the specification)
ScenarioATitle ==
    <<"C", "a", "f", "U+00E9", " ", "/", " ", "U+00DC", "b", "e", "r", "r",
      "a", "s", "c", "h", "u", "n", "g">>

SanTitles ==
    StrsUpTo(MaxShort) \cup LongTitles
        \cup {Rep("a", 300), Rep("a", 70), ScenarioATitle}

SanIds ==
    StrsUpTo(1)
        \cup {<<"a", "b", "c", "1", "2", "3">>, Rep("b", 70),
              Rep("b", char_limit + MaxOver)}

SanMetadata ==
    {[k \in {K_title, K_id} |-> IF k = K_title THEN t ELSE i] :
        t \in SanTitles, i \in SanIds}

\* literal text of a template that alone exceeds char_limit
LongLiteral == Rep("x", char_limit + 1)

\* '{title} [{id}]', '{title}  {id}', 'a  b', and the over-long literal text
\* alone and followed by '{title}'
SanTemplates ==
    {YDL_OUTPUT_TEMPLATE,
     <<"{", "t", "i", "t", "l", "e", "}", " ", " ", "{", "i", "d", "}">>,
     <<"a", " ", " ", "b">>,
     LongLiteral,
     LongLiteral \o <<"{", "t", "i", "t", "l", "e", "}">>}

PresetTokens == {"normalmp4", "mp3", "bogus"}

SanIdle ==
    /\ s_pc = "idle"
    /\ s_tmpl = <<>>
    /\ s_kwargs = <<>>
    /\ s_order = <<>>
    /\ s_san = <<>>
    /\ s_filename = <<>>
    /\ s_out = <<>>
    /\ s_outfile = <<>>

SanStart ==
    /\ s_pc = "call"
    /\ s_tmpl \in SanTemplates
    /\ s_kwargs \in SanMetadata
    /\ s_order \in KeyOrders(s_tmpl)
    /\ s_san = <<>>
    /\ s_filename = <<>>
    /\ s_out = <<>>
    /\ s_outfile = <<>>

\* lines 501-514
FormatBegin ==
    /\ s_pc = "call"
    /\ s_san' = SanitizedKwargs(s_kwargs, s_order)
    /\ s_filename' = CollapseSpaces(TmplFormat(s_tmpl, s_san'))
    /\ s_pc' = "loop"
    /\ UNCHANGED <<s_tmpl, s_kwargs, s_order, s_out, s_outfile>>
    /\ UNCHANGED <<pipeVars, userVars, routeVars>>

\* one pass of the loop at lines 516-526; max() of no values raises
FormatTruncate ==
    /\ s_pc = "loop"
    /\ TooLong(s_filename)
    /\ IF s_san = <<>>
       THEN /\ s_pc' = "raised"
            /\ UNCHANGED <<s_san, s_filename>>
       ELSE /\ s_san' = TruncateLongest(s_san, s_filename)
            /\ s_filename' = TmplFormat(s_tmpl, s_san')
            /\ s_pc' = "loop"
    /\ UNCHANGED <<s_tmpl, s_kwargs, s_order, s_out, s_outfile>>
    /\ UNCHANGED <<pipeVars, userVars, routeVars>>

\* line 527
FormatReturn ==
    /\ s_pc = "loop"
    /\ ~TooLong(s_filename)
    /\ s_out' = Strip(s_filename)
    /\ s_pc' = "returned"
    /\ UNCHANGED <<s_tmpl, s_kwargs, s_order, s_san, s_filename, s_outfile>>
    /\ UNCHANGED <<pipeVars, userVars, routeVars>>

\* lines 424-429, for the preset of the submission
MakeOutfile ==
    /\ s_pc = "returned"
    /\ \E preset \in PresetTokens : s_outfile' = OutfileName(s_out, preset)
    /\ s_pc' = "outfile"
    /\ UNCHANGED <<s_tmpl, s_kwargs, s_order, s_san, s_filename, s_out>>
    /\ UNCHANGED <<pipeVars, userVars, routeVars>>

(***************************************************************************)
(* The download pipeline: submit_download, dl_worker, main                 *)
(***************************************************************************)
\* a YoutubeDL instance is named by the number of the call that created it
YdlRef(i) == <<"ydl", i>>

\* the URLs submitted in the model
U1 == <<"u", "1">>
U2 == <<"u", "2">>
Urls == {U1, U2}

\* ydl.extract_info(url, download=False) when it returns: the metadata
ExtractInfo(url) ==
    [k \in {K_title, K_id} |->
        IF url = U1
        THEN (IF k = K_title THEN <<"a", " ", " ", "/", "b">> ELSE <<"1">>)
        ELSE (IF k = K_title THEN <<"U+00E9">> ELSE <<"2">>)]

\* the submissions of the model: (username, url, preset)
PipeRequests ==
    {<<<<"a">>, U1, "mp3">>, <<<<"a">>, U2, "bogus">>,
     <<<<"b">>, U1, "mp3">>, <<<<"c">>, U1, "normalmp4">>}

\* DL_Q.get() taking the newest item
QueueGetLast(q) == q[Len(q)]

\* the item DL_Q.get() returns
QueueGet(q) == Head(q)

\* the queue once DL_Q.get() has returned
QueueRest(q) == Tail(q)

\* DL_Q.put(item) putting the item ahead of the queued ones
QueuePutFront(q, item) == <<item>> \o q

\* DL_Q.put(item)
QueuePut(q, item) == Append(q, item)

\* the except clause of dl_worker ending the thread
AfterExceptionReturn == "returned"

\* where dl_worker continues after its except clause (lines 555-556)
AfterException == "get"

\* the queue after lines 407-445, putting the job whatever extract_info did
QueueAfterExtractAlways(q, success, item) == QueuePut(q, item)

\* the queue after lines 407-445: a job is put only in the else branch
QueueAfterExtract(q, success, item) ==
    IF success THEN QueuePut(q, item) ELSE q

\* line 430 without the tenant's output directory
OutPathNoDir(username, outfile) == PathStr(PurePath(outfile))

\* line 430
OutPath(username, outfile) == PathJoin(OUTDIRS[username], outfile)

\* the poison pill main puts (line 576)
Sentinel == <<None, None>>

\* the state of the pipeline once main has started the worker thread,
\* whatever the environment variable YDL_DEFAULT_PRESET holds and whatever
\* files earlier runs have left
PipeConstructed ==
    /\ DL_Q = <<>>
    /\ POSTPROCESSORS = InitialPostprocessors
    /\ calls = <<>>
    /\ results = <<>>
    /\ ydl_params = <<>>
    /\ w_pc = "get"
    /\ w_ydl = None
    /\ w_username = None
    /\ w_url = None
    /\ w_outfile = None
    /\ m_pc = "serving"
    /\ put_order = <<>>
    /\ get_order = <<>>
    /\ dl_log = <<>>
    /\ q_at_shutdown = <<>>

\* the pipeline started with YDL_DEFAULT_PRESET unset
PipeStart ==
    /\ PipeConstructed
    /\ files = <<>>
    /\ default_preset = YDL_DEFAULT_PRESET

\* the values of the environment variable YDL_DEFAULT_PRESET in the model
DefaultPresets == DOMAIN FORMATS

\* the pipeline started with YDL_DEFAULT_PRESET naming any preset
EnvStart ==
    /\ PipeConstructed
    /\ files = <<>>
    /\ default_preset \in DefaultPresets

\* submit_download(username, url, preset), lines 390-408: up to the start of
\* ydl.extract_info. POSTPROCESSORS[preset] inserts a missing key.
submit_download(username, url, preset) ==
    /\ Len(calls) < MaxCalls
    /\ LET fmt == DictGet(FORMATS, preset, FORMATS[default_preset])
           pps == [p \in DOMAIN POSTPROCESSORS \cup {preset} |->
                      DictGet(POSTPROCESSORS, p, <<>>)]
       IN  /\ POSTPROCESSORS' = pps
           /\ ydl_params' =
                  Append(ydl_params,
                         [format |-> fmt, postprocessors |-> pps[preset],
                          outtmpl |-> YDL_OUTPUT_TEMPLATE])
           /\ calls' =
                  Append(calls,
                         [username |-> username, url |-> url,
                          preset |-> preset, fmt |-> fmt,
                          pc |-> "extract_info"])
    /\ UNCHANGED <<DL_Q, results, files, w_pc, w_ydl, w_username, w_url,
                   w_outfile, m_pc, put_order, get_order, dl_log>>
    /\ UNCHANGED <<sanVars, userVars, default_preset, q_at_shutdown>>

\* a call of submit_download by an authorized request with a url
SubmitBegin ==
    /\ m_pc = "serving"
    /\ \E request \in PipeRequests :
          submit_download(request[1], request[2], request[3])
    /\ UNCHANGED routeVars

\* the dict submit_download returns (lines 447-453)
SubmitResult(c, success, outfile) ==
    [success |-> success, url |-> c.url, preset |-> c.preset,
     format |-> c.fmt, outfile |-> outfile]

\* submit_download, lines 408-453: ydl.extract_info raises or returns, the
\* job is put, the result returned
SubmitEnd ==
    /\ \E i \in 1..Len(calls) :
          /\ calls[i].pc = "extract_info"
          /\ \E raised \in BOOLEAN,
                order \in KeyOrders(YDL_OUTPUT_TEMPLATE) :
                LET c == calls[i]
                    success == ~raised
                    info == ExtractInfo(c.url)
                    outfile ==
                        OutfileName(Format(YDL_OUTPUT_TEMPLATE, info, order),
                                    c.preset)
                    outpath == OutPath(c.username, outfile)
                    item == <<YdlRef(i), c.username, c.url>>
                IN  /\ DL_Q' = QueueAfterExtract(DL_Q, success, item)
                    /\ put_order' =
                           IF DL_Q' = DL_Q THEN put_order
                           ELSE Append(put_order, YdlRef(i))
                    /\ ydl_params' =
                           IF success
                           THEN [ydl_params EXCEPT ![i].outtmpl = outpath]
                           ELSE ydl_params
                    /\ calls' = [calls EXCEPT ![i].pc = "returned"]
                    /\ results' =
                           [j \in DOMAIN results \cup {i} |->
                               IF j = i
                               THEN SubmitResult(c, success,
                                                 IF success THEN outfile
                                                 ELSE None)
                               ELSE results[j]]
    /\ UNCHANGED <<POSTPROCESSORS, files, w_pc, w_ydl, w_username, w_url,
                   w_outfile, m_pc, get_order, dl_log>>
    /\ UNCHANGED <<sanVars, userVars, routeVars, default_preset,
                   q_at_shutdown>>

\* Path(path).unlink() leaving the file in place
UnlinkNothing(fs, path) == fs

\* the regular files after Path(path).unlink()
Unlink(fs, path) == [p \in DOMAIN fs \ {path} |-> fs[p]]

\* the regular files after `content` was written to path
WriteFile(fs, path, content) ==
    [p \in DOMAIN fs \cup {path} |->
        IF p = path THEN [content |-> content, owner |-> <<>>] ELSE fs[p]]

\* the regular files after os.chown(path, uid=uid, gid=gid)
Chown(fs, path, uid, gid) == [fs EXCEPT ![path].owner = <<uid, gid>>]

\* logger.error("Exception: %r", exc_info) in the except clause
LogException(ydl, exc) == Append(dl_log, <<"Exception", ydl, <<exc>>>>)

\* dl_worker, lines 541-547: DL_Q.get() returns, the item is unpacked, the
\* poison pill tested, an existing output file removed
WorkerGet ==
    /\ w_pc = "get"
    /\ DL_Q # <<>>
    /\ LET item == QueueGet(DL_Q)
       IN  /\ DL_Q' = QueueRest(DL_Q)
           /\ IF Len(item) # 3
              THEN \* ValueError: not enough values to unpack
                   /\ w_pc' = AfterException
                   /\ dl_log' = LogException(item[1], "ValueError")
                   /\ get_order' = Append(get_order, item[1])
                   /\ UNCHANGED <<w_ydl, w_username, w_url, w_outfile, files>>
              ELSE /\ w_ydl' = item[1]
                   /\ w_username' = item[2]
                   /\ w_url' = item[3]
                   /\ get_order' = Append(get_order, item[1])
                   /\ IF item[1] = None
                      THEN /\ w_pc' = "returned"
                           /\ UNCHANGED <<w_outfile, files, dl_log>>
                      ELSE LET outfile == ydl_params[item[1][2]].outtmpl
                           IN  /\ w_outfile' = outfile
                               /\ IF outfile \in DOMAIN files
                                  THEN \E raised \in BOOLEAN :
                                          IF raised
                                          THEN /\ w_pc' = AfterException
                                               /\ dl_log' =
                                                      LogException(item[1],
                                                                   "OSError")
                                               /\ UNCHANGED files
                                          ELSE /\ w_pc' = "download"
                                               /\ dl_log' =
                                                      Append(dl_log,
                                                             <<"Removing",
                                                               item[1],
                                                               outfile>>)
                                               /\ files' =
                                                      Unlink(files, outfile)
                                  ELSE /\ w_pc' = "download"
                                       /\ UNCHANGED <<files, dl_log>>
    /\ UNCHANGED <<POSTPROCESSORS, calls, results, ydl_params, m_pc,
                   put_order>>
    /\ UNCHANGED <<sanVars, userVars, routeVars, default_preset,
                   q_at_shutdown>>

\* dl_worker, line 548: ydl.download([url]) returns or raises; the extractor
\* writes to ydl.params['outtmpl']
WorkerDownload ==
    /\ w_pc = "download"
    /\ \E raised \in BOOLEAN :
          IF raised
          THEN /\ w_pc' = AfterException
               /\ dl_log' = LogException(w_ydl, "DownloadError")
               /\ UNCHANGED files
          ELSE /\ w_pc' = "chown"
               /\ files' = WriteFile(files, ydl_params[w_ydl[2]].outtmpl,
                                     <<w_ydl, w_url>>)
               /\ UNCHANGED dl_log
    /\ UNCHANGED <<DL_Q, POSTPROCESSORS, calls, results, ydl_params, w_ydl,
                   w_username, w_url, w_outfile, m_pc, put_order, get_order>>
    /\ UNCHANGED <<sanVars, userVars, routeVars, default_preset,
                   q_at_shutdown>>

\* whether int(s) returns
IsIntLiteral(s) ==
    /\ s # None
    /\ s # <<>>
    /\ \A i \in 1..Len(s) : s[i] \in digits

\* dl_worker, lines 549-554: the ownership change, the report, task_done
WorkerChown ==
    /\ w_pc = "chown"
    /\ IF DictGet(UIDS, w_username, None) # None
       THEN LET uid == UIDS[w_username]
                gid == DictGet(GIDS, w_username, uid)
            IN  IF ~IsIntLiteral(uid)
                THEN /\ w_pc' = AfterException
                     /\ dl_log' = LogException(w_ydl, "ValueError")
                     /\ UNCHANGED files
                ELSE IF ~IsIntLiteral(gid)
                THEN /\ w_pc' = AfterException
                     /\ dl_log' =
                            LogException(w_ydl,
                                         IF gid = None THEN "TypeError"
                                         ELSE "ValueError")
                     /\ UNCHANGED files
                ELSE \E raised \in BOOLEAN :
                        IF raised \/ w_outfile \notin DOMAIN files
                        THEN /\ w_pc' = AfterException
                             /\ dl_log' = LogException(w_ydl, "OSError")
                             /\ UNCHANGED files
                        ELSE /\ w_pc' = "get"
                             /\ files' = Chown(files, w_outfile, uid, gid)
                             /\ dl_log' =
                                    Append(dl_log,
                                           <<"Downloaded", w_ydl, w_outfile>>)
       ELSE /\ w_pc' = "get"
            /\ dl_log' = Append(dl_log, <<"Downloaded", w_ydl, w_outfile>>)
            /\ UNCHANGED files
    /\ UNCHANGED <<DL_Q, POSTPROCESSORS, calls, results, ydl_params, w_ydl,
                   w_username, w_url, w_outfile, m_pc, put_order, get_order>>
    /\ UNCHANGED <<sanVars, userVars, routeVars, default_preset,
                   q_at_shutdown>>

\* main, lines 572-577: APP.run returns (no request is being handled any
\* more), the poison pill is put, main waits in dl_thread.join()
Shutdown ==
    /\ m_pc = "serving"
    /\ \A i \in 1..Len(calls) : calls[i].pc # "extract_info"
    /\ DL_Q' = QueuePut(DL_Q, Sentinel)
    /\ put_order' = Append(put_order, Sentinel[1])
    /\ m_pc' = "join"
    /\ q_at_shutdown' = [k \in 1..Len(DL_Q) |-> DL_Q[k][1]]
    /\ UNCHANGED <<POSTPROCESSORS, calls, results, ydl_params, files, w_pc,
                   w_ydl, w_username, w_url, w_outfile, get_order, dl_log>>
    /\ UNCHANGED <<sanVars, userVars, routeVars, default_preset>>

\* dl_thread.join() has returned
JoinReturned == m_pc = "join" /\ w_pc = "returned"

(***************************************************************************)
(* process_users, called on a specification string                         *)
(***************************************************************************)
\* the default of the environment variable YDL_USERS (line 23)
DefaultUsers ==
    <<"y", "o", "u", "t", "u", "b", "e", "-", "d", "l", ":",
      "t", "e", "s", "t", "i", "n", "g", ":", ".", "/">>

\* the characters of the short specification strings
UserAlphabet == {"a", "b", ":", ";", "/"}

\* the values a field of an entry takes, by position
UserFieldValues ==
    <<{<<"a">>, <<"b">>},
      {<<>>, <<"s">>},
      {<<>>, <<"d">>, <<"d", "/">>, <<"/">>},
      {<<>>, <<"7">>},
      {<<>>, <<"8">>}>>

\* the entries 'username[:token[:outdir[:uid[:gid]]]]' with n fields
UserEntriesOf(n) ==
    {Join(fields, ":") :
        fields \in {f \in [1..n -> UNION {UserFieldValues[k] : k \in 1..5}] :
                       \A k \in 1..n : f[k] \in UserFieldValues[k]}}

UserEntries == UNION {UserEntriesOf(n) : n \in 1..5}

\* the specification strings process_users is called on
UserSpecs ==
    UNION {[1..n -> UserAlphabet] : n \in 0..MaxSpecLen}
        \cup UserEntries
        \cup {e \o <<";">> \o f :
                 e \in UserEntries,
                 f \in {<<"a">>, <<"b", ":", "t", ":", "e", ":", "9">>}}
        \cup {YDL_USERS, DefaultUsers}

UsersIdle ==
    /\ u_pc = "idle"
    /\ u_spec = <<>>
    /\ u_tables = <<>>

UsersStart ==
    /\ u_pc = "call"
    /\ u_spec \in UserSpecs
    /\ u_tables = <<>>

\* TOKENS, OUTDIRS, UIDS, GIDS = process_users(YDL_USERS) (line 43)
ProcessUsers ==
    /\ u_pc = "call"
    /\ u_tables' = process_users(u_spec)
    /\ u_pc' = "done"
    /\ UNCHANGED u_spec
    /\ UNCHANGED <<sanVars, pipeVars, routeVars>>

(***************************************************************************)
(* The HTTP routes submit and result_file                                  *)
(***************************************************************************)
NoRequest == [route |-> "none"]
NoResponse == [status |-> 0]

RouteIdle ==
    /\ r_pc = "idle"
    /\ r_req = NoRequest
    /\ r_slept = FALSE
    /\ r_resp = NoResponse

\* two sets of request parameters put together
Merge(f, g) ==
    [k \in DOMAIN f \cup DOMAIN g |-> IF k \in DOMAIN f THEN f[k] ELSE g[k]]

\* the parameters of the POST requests of the model: token absent, right
\* (for user a) or wrong; url absent, empty or given; preset and
\* return_json absent or given
SubmitParams ==
    {Merge(Merge(t, u), Merge(p, j)) :
        t \in {<<>>, [token |-> <<"s">>], [token |-> <<"x">>]},
        u \in {<<>>, [url |-> <<>>], [url |-> U1]},
        p \in {<<>>, [preset |-> "bogus"]},
        j \in {<<>>, [return_json |-> "false"]}}

\* POST /<username>/submit, for the tenant a and for no tenant
SubmitRequests ==
    {[route |-> "submit", username |-> u, params |-> p] :
        u \in {<<"a">>, <<"z">>}, p \in SubmitParams}

EtcPasswd == <<"/", "e", "t", "c", "/", "p", "a", "s", "s", "w", "d">>
XMp4 == <<"x", ".", "m", "p", "4">>

\* the file names requested: '../../etc/passwd', '/etc/passwd', 'passwd',
\* 'x.mp4', 'sub/x.mp4', '..', '.', ''
ResultFilenames ==
    {<<".", ".", "/", ".", ".">> \o EtcPasswd,
     EtcPasswd,
     <<"p", "a", "s", "s", "w", "d">>,
     XMp4,
     <<"s", "u", "b", "/">> \o XMp4,
     <<".", ".">>,
     <<".">>,
     <<>>}

\* GET /<username>/result/<filename>, for the tenants a (in /d/) and
\* c (in ./) and for no tenant
ResultRequests ==
    {[route |-> "result", username |-> u, filename |-> f, params |-> p] :
        u \in {<<"a">>, <<"c">>, <<"z">>},
        f \in ResultFilenames,
        p \in {<<>>, [download |-> "false"]}}

\* a regular file that an earlier run or another program has left
OldFile == [content |-> <<"old">>, owner |-> <<>>]

\* the regular files when the server starts: none; or /etc/passwd with
\* x.mp4 and x.log in /d/; or /etc/passwd with passwd in /d/ and x.mp4 in ./
RouteFileSystems ==
    {<<>>,
     [p \in {EtcPasswd, <<"/", "d", "/">> \o XMp4,
             <<"/", "d", "/", "x", ".", "l", "o", "g">>} |-> OldFile],
     [p \in {EtcPasswd, <<"/", "d", "/", "p", "a", "s", "s", "w", "d">>, XMp4} |-> OldFile]}

RouteStart ==
    /\ PipeConstructed
    /\ files \in RouteFileSystems
    /\ default_preset = YDL_DEFAULT_PRESET
    /\ RouteIdle

\* the test at line 152 passing every unknown username
AuthFailsKnownOnly(username, token) ==
    username \in DOMAIN TOKENS /\ TOKENS[username] # token

\* the test at line 152
AuthFails(username, token) ==
    username \notin DOMAIN TOKENS \/ TOKENS[username] # token

\* `not url` for a missing parameter only
NotUrlMissingOnly(url) == url = None

\* `not url` (line 219)
NotUrl(url) == url = None \/ url = <<>>

\* the response: its status, what it is, and the path of the file it serves
Response(status, body, served) ==
    [status |-> status, body |-> body, served |-> served]

\* lines 208-210: the request arrives, is_authorized is called
ReceiveSubmit ==
    /\ r_pc = "idle"
    /\ m_pc = "serving"
    /\ Len(calls) < MaxCalls
    /\ r_req' \in SubmitRequests
    /\ r_pc' = "is_authorized"
    /\ r_slept' = FALSE
    /\ r_resp' = NoResponse
    /\ UNCHANGED <<sanVars, pipeVars, userVars>>

\* is_authorized, line 152, and its return True (line 155)
AuthCheck ==
    /\ r_pc = "is_authorized"
    /\ r_pc' =
           IF AuthFails(r_req.username, DictGet(r_req.params, "token", None))
           THEN "sleep"
           ELSE "authorized"
    /\ UNCHANGED <<r_req, r_slept, r_resp>>
    /\ UNCHANGED <<sanVars, pipeVars, userVars>>

\* is_authorized, lines 153-154: the delay, then return False
AuthSleep ==
    /\ r_pc = "sleep"
    /\ r_slept' = TRUE
    /\ r_pc' = "denied"
    /\ UNCHANGED <<r_req, r_resp>>
    /\ UNCHANGED <<sanVars, pipeVars, userVars>>

\* submit, lines 211-217: the answer to a request that is not authorized
\* (bottle.abort raises, so the handler ends there)
SubmitDenied ==
    /\ r_pc = "denied"
    /\ r_resp' =
           IF DictGet(r_req.params, "return_json", "true") = "true"
           THEN Response(200, "not authorized", <<>>)
           ELSE Response(401, "Not authorized", <<>>)
    /\ r_pc' = "idle"
    /\ UNCHANGED <<r_req, r_slept>>
    /\ UNCHANGED <<sanVars, pipeVars, userVars>>

\* submit, lines 218-228: the url is tested, submit_download called
SubmitValidated ==
    /\ r_pc = "authorized"
    /\ LET url == DictGet(r_req.params, "url", None)
           preset == DictGet(r_req.params, "preset", default_preset)
       IN  IF NotUrl(url)
           THEN /\ r_resp' =
                       IF DictGet(r_req.params, "return_json", "true")
                              = "true"
                       THEN Response(200, "missing 'url' query param", <<>>)
                       ELSE Response(400, "missing 'url' query param", <<>>)
                /\ r_pc' = "idle"
                /\ UNCHANGED <<sanVars, pipeVars, userVars>>
           ELSE /\ submit_download(r_req.username, url, preset)
                /\ r_pc' = "submit_download"
                /\ UNCHANGED r_resp
    /\ UNCHANGED <<r_req, r_slept>>

\* submit, lines 230-246: submit_download has returned; the result is sent
\* as JSON, or the client redirected to the result page
SubmitRespond ==
    /\ r_pc = "submit_download"
    /\ calls[Len(calls)].pc = "returned"
    /\ r_resp' =
           IF DictGet(r_req.params, "return_json", "true") # "true"
                  /\ results[Len(calls)].success
           THEN Response(303, "redirect", <<>>)
           ELSE Response(200, "result", <<>>)
    /\ r_pc' = "idle"
    /\ UNCHANGED <<r_req, r_slept>>
    /\ UNCHANGED <<sanVars, pipeVars, userVars>>

\* Path(filename).name
PathName(filename) ==
    LET parts == PurePath(filename).parts
    IN  IF parts = <<>> THEN <<>> ELSE parts[Len(parts)]

\* path.is_file()
IsFile(fs, path) == path \in DOMAIN fs

\* name with its suffix replaced by suffix: the name of path.with_suffix
WithSuffix(name, suffix) ==
    LET dots == {k \in 2..(Len(name) - 1) : name[k] = "."}
        last == CHOOSE k \in dots : \A j \in dots : j <= k
    IN  (IF dots = {} THEN name ELSE SubSeq(name, 1, last - 1)) \o suffix

\* the path bottle.static_file(filename, root=root) serves
StaticFile(filename, root) == PathJoin(root, filename)

\* result_file, lines 261-335. A username that is no key of OUTDIRS raises
\* KeyError (404); with_suffix of a path with an empty name raises
\* ValueError, which the handler does not catch (the server answers 500)
ResultFileResponse(fs, req) ==
    LET filename == PathName(req.filename)
        download == DictGet(req.params, "download", "true")
    IN  IF req.username \notin DOMAIN OUTDIRS
        THEN Response(404, "Invalid filename", <<>>)
        ELSE LET root == OUTDIRS[req.username]
                 path == PathJoin(root, filename)
                 parts == PurePath(path).parts
             IN  IF parts = <<>>
                 THEN Response(500, "ValueError", <<>>)
                 ELSE LET logname == WithSuffix(parts[Len(parts)],
                                                <<".", "l", "o", "g">>)
                          logfile ==
                              PathStr([abs |-> PurePath(path).abs,
                                       parts |->
                                           SubSeq(parts, 1, Len(parts) - 1)
                                               \o <<logname>>])
                          exists == IsFile(fs, path)
                      IN  IF download = "true"
                          THEN IF exists
                               THEN Response(200, "file",
                                             StaticFile(filename, root))
                               ELSE Response(404, "No file", <<>>)
                          ELSE IF exists
                          THEN Response(200, "page with link", <<>>)
                          ELSE IF IsFile(fs, logfile)
                          THEN Response(200, "page with log", <<>>)
                          ELSE Response(200, "page", <<>>)

\* GET /<username>/result/<filename>: the whole handler
ResultFile ==
    /\ r_pc = "idle"
    /\ m_pc = "serving"
    /\ \E req \in ResultRequests :
          /\ r_req' = req
          /\ r_resp' = ResultFileResponse(files, req)
    /\ r_slept' = FALSE
    /\ UNCHANGED r_pc
    /\ UNCHANGED <<sanVars, pipeVars, userVars>>

(***************************************************************************)
(* Specifications                                                          *)
(***************************************************************************)
Init == SanIdle /\ PipeStart /\ UsersIdle /\ RouteIdle

Next ==
    \/ SubmitBegin
    \/ SubmitEnd
    \/ WorkerGet
    \/ WorkerDownload
    \/ WorkerChown
    \/ Shutdown

Spec == Init /\ [][Next]_vars

\* the worker thread keeps running and every download call returns
FairSpec ==
    /\ Spec
    /\ WF_vars(WorkerGet)
    /\ WF_vars(WorkerDownload)
    /\ WF_vars(WorkerChown)

SanInit == SanStart /\ PipeStart /\ UsersIdle /\ RouteIdle

SanNext ==
    \/ FormatBegin
    \/ FormatTruncate
    \/ FormatReturn
    \/ MakeOutfile

SanSpec == SanInit /\ [][SanNext]_vars

\* the pipeline under every configured default preset
EnvInit == SanIdle /\ EnvStart /\ UsersIdle /\ RouteIdle

EnvSpec == EnvInit /\ [][Next]_vars

\* process_users on every specification string of the model
UsersInit == SanIdle /\ PipeStart /\ UsersStart /\ RouteIdle

UsersNext == ProcessUsers

UsersSpec == UsersInit /\ [][UsersNext]_vars

\* the HTTP server handling the requests to submit and to result_file one
\* at a time, over the files it finds when it starts
RouteInit == SanIdle /\ RouteStart /\ UsersIdle

RouteNext ==
    \/ ReceiveSubmit
    \/ AuthCheck
    \/ AuthSleep
    \/ SubmitDenied
    \/ SubmitValidated
    \/ SubmitEnd
    \/ SubmitRespond
    \/ ResultFile

RouteSpec == RouteInit /\ [][RouteNext]_vars

(***************************************************************************)
(* Properties of the pipeline                                              *)
(***************************************************************************)
\* the records of the worker's log that end the processing of a job
EndRecords ==
    {k \in 1..Len(dl_log) : dl_log[k][1] \in {"Downloaded", "Exception"}}

\* the processing of the job of call i has ended, in success or in failure
Processed(i) == \E k \in EndRecords : dl_log[k][2] = YdlRef(i)

\* the job of call i has been put on the queue
WasPut(i) == \E k \in 1..Len(put_order) : put_order[k] = YdlRef(i)

\* C1: failure isolation. Whenever the worker's except clause has logged an
\* exception the worker is back at DL_Q.get() (it has not ended), and every
\* job put on the queue is eventually dequeued and processed to its end,
\* whatever happened to the jobs before it.
FailureIsolation ==
    /\ [][(Len(dl_log') > Len(dl_log)
              /\ dl_log'[Len(dl_log')][1] = "Exception") => w_pc' = "get"]_vars
    /\ \A i \in 1..MaxCalls : WasPut(i) ~> Processed(i)

\* C1 witness: a job failed in its download and a later job was downloaded
FailureIsolationWitness ==
    \E j, k \in 1..Len(dl_log) :
        /\ j < k
        /\ dl_log[j][1] = "Exception"
        /\ dl_log[j][3] = <<"DownloadError">>
        /\ dl_log[k][1] = "Downloaded"
        /\ dl_log[k][2] # dl_log[j][2]

\* C2: serial FIFO execution. The items the worker has taken, followed by
\* the items still queued, are the items in the order they were put; and at
\* most one job is in progress: every job taken before has ended, except the
\* one the worker is downloading or changing the owner of.
SerialFIFO ==
    /\ put_order = get_order \o [k \in 1..Len(DL_Q) |-> DL_Q[k][1]]
    /\ Len(get_order) =
           Cardinality(EndRecords)
               + (IF w_pc \in {"download", "chown"} THEN 1 ELSE 0)

\* C2 witness: the second call put its job first (the two calls overlapped)
\* and the worker took the two jobs in put order
SerialFIFOWitness ==
    /\ Len(get_order) >= 2
    /\ get_order[1] = YdlRef(2)
    /\ get_order[2] = YdlRef(1)

\* the worker has taken the poison pill off the queue
SentinelDequeued ==
    /\ m_pc = "join"
    /\ \E k \in 1..Len(get_order) : get_order[k] = Sentinel[1]

\* C3: controlled shutdown completes. Once the worker has dequeued the
\* sentinel it is Stopped (it has left its loop) and the join returns.
ShutdownCompletes == SentinelDequeued => JoinReturned

\* the number of jobs call i has put on the queue
PutCount(i) ==
    Cardinality({k \in 1..Len(put_order) : put_order[k] = YdlRef(i)})

\* C4: submit_download returns success=true if and only if the call put
\* exactly one job, for its url, on the queue; a call that returns
\* success=false has put nothing, and nothing is put before extract_info
\* has returned.
SuccessIffEnqueued ==
    /\ \A i \in 1..Len(calls) :
          IF calls[i].pc = "returned"
          THEN /\ results[i].success <=> PutCount(i) = 1
               /\ ~results[i].success => PutCount(i) = 0
          ELSE PutCount(i) = 0
    /\ \A k \in 1..Len(DL_Q) :
          Len(DL_Q[k]) = 3 =>
              /\ DL_Q[k][3] = calls[DL_Q[k][1][2]].url
              /\ DL_Q[k][2] = calls[DL_Q[k][1][2]].username

\* C4 witness: one call has returned success=false, another success=true
SuccessIffEnqueuedWitness ==
    \E i, j \in 1..Len(calls) :
        /\ calls[i].pc = "returned"
        /\ calls[j].pc = "returned"
        /\ ~results[i].success
        /\ results[j].success
        /\ Len(DL_Q) = 1

\* the output file name returned by call i, joined to the output directory
\* of the tenant that submitted
ReturnedPath(i) == PathJoin(OUTDIRS[calls[i].username], results[i].outfile)

\* the paths at which the two file systems differ
ChangedPaths(fs1, fs2) ==
    {p \in DOMAIN fs1 \cup DOMAIN fs2 :
        \/ p \notin DOMAIN fs1
        \/ p \notin DOMAIN fs2
        \/ fs1[p] # fs2[p]}

\* C5: the returned output file name, joined to the tenant's output
\* directory, is the destination path stored in the job from the moment the
\* call has returned; the worker deletes, writes and changes the owner at
\* that path only.
DestinationPathFixed ==
    /\ [](\A i \in 1..Len(calls) :
             (calls[i].pc = "returned" /\ results[i].success) =>
                 ydl_params[i].outtmpl = ReturnedPath(i))
    /\ [](w_pc \in {"download", "chown"} =>
             w_outfile = ReturnedPath(w_ydl[2]))
    /\ [][\A p \in ChangedPaths(files, files') :
             p = ReturnedPath(w_ydl'[2])]_vars

\* C5 witness: the first call's download is at the returned path, inside
\* an output directory, and the second call has returned since
DestinationPathFixedWitness ==
    /\ Len(calls) = 2
    /\ calls[1].pc = "returned"
    /\ calls[2].pc = "returned"
    /\ results[1].success
    /\ results[2].success
    /\ calls[1].username # <<"c">>
    /\ ReturnedPath(1) \in DOMAIN files
    /\ files[ReturnedPath(1)].content[1] = YdlRef(1)
    /\ get_order = <<YdlRef(1)>>

(***************************************************************************)
(* Properties of the sanitizer                                             *)
(***************************************************************************)
\* format has returned
Returned == s_pc \in {"returned", "outfile"}

\* C6: length invariant. The string format returns has at most char_limit
\* characters.
LengthInvariant == Returned => Len(s_out) <= char_limit

\* C6 witness: the values substituted first were too long, and format
\* returned a name of exactly char_limit characters
LengthInvariantWitness ==
    /\ Returned
    /\ s_san # SanitizedKwargs(s_kwargs, s_order)
    /\ Len(s_out) = char_limit

\* C7: no double spaces. The string format returns contains no two
\* consecutive spaces.
NoDoubleSpaces == Returned => ~HasDoubleSpace(s_out)

\* the whitelist and the brackets of the template '{title} [{id}]'
WhitelistAndBrackets == whitelist \cup {"[", "]"}

Deterministic ==
    Returned =>
        \A o \in KeyOrders(s_tmpl) : Format(s_tmpl, s_kwargs, o) = s_out

\* C10: Scenario B. When the title alone exceeds the limit, the output file
\* name of the submission, '.ext' included, has at most char_limit
\* characters, and the id field is left as sanitized.
ScenarioB ==
    (/\ s_pc = "outfile"
     /\ s_tmpl = YDL_OUTPUT_TEMPLATE
     /\ Len(_sanitize(s_kwargs[K_title])) > char_limit
     /\ Len(_sanitize(s_kwargs[K_id])) < Len(_sanitize(s_kwargs[K_title])))
        => /\ Len(s_outfile) <= char_limit
           /\ SanValue(s_san, K_id) = _sanitize(s_kwargs[K_id])

\* C20: sanitizer termination. For every template, also one without
\* placeholders or whose literal text alone exceeds the limit, and every
\* metadata, format returns a string: it never raises, every pass of the
\* truncation loop over a candidate that is too long shortens a value (so
\* the loop reaches a candidate within the limit), and a template with no
\* placeholders is returned unchanged apart from the collapse of spaces.
SanitizerTerminates ==
    /\ s_pc # "raised"
    /\ (s_pc = "loop" /\ TooLong(s_filename) /\ s_san # <<>>) =>
          TruncateLongest(s_san, s_filename) # s_san
    /\ (Returned /\ TmplKeys(s_tmpl) = {}) => s_out = CollapseSpaces(s_tmpl)

(***************************************************************************)
(* Properties of the tenant tables                                         *)
(***************************************************************************)
\* field k of an entry of the specification string, '' when it is missing
EntryField(entry, k) ==
    LET fields == Split(entry, ":")
    IN  IF k <= Len(fields) THEN fields[k] ELSE <<>>

\* the last entry of the specification string with this username
LastEntry(ydl_users, u) ==
    LET entries == Split(ydl_users, ";")
        i == CHOOSE j \in 1..Len(entries) :
                 /\ EntryField(entries[j], 1) = u
                 /\ \A k \in (j + 1)..Len(entries) :
                       EntryField(entries[k], 1) # u
    IN  entries[i]

\* the usernames of the entries of the specification string
ParsedUsernames(ydl_users) ==
    LET entries == Split(ydl_users, ";")
    IN  {EntryField(entries[i], 1) : i \in 1..Len(entries)}

\* C16: tenant table invariant. For every specification string, once
\* process_users has returned every parsed username is a key of all four
\* mappings and nothing else is; a missing or empty field has its default
\* (token '', outdir './', uid None, gid None), a given field its value;
\* and every output directory ends with '/'.
TenantTables ==
    u_pc = "done" =>
        /\ DOMAIN u_tables.tokens = ParsedUsernames(u_spec)
        /\ DOMAIN u_tables.outdirs = ParsedUsernames(u_spec)
        /\ DOMAIN u_tables.uids = ParsedUsernames(u_spec)
        /\ DOMAIN u_tables.gids = ParsedUsernames(u_spec)
        /\ \A u \in ParsedUsernames(u_spec) :
              LET e == LastEntry(u_spec, u)
                  outdir == u_tables.outdirs[u]
              IN  /\ u_tables.tokens[u] = EntryField(e, 2)
                  /\ outdir # <<>>
                  /\ outdir[Len(outdir)] = "/"
                  /\ outdir \in {EntryField(e, 3),
                                 EntryField(e, 3) \o <<"/">>,
                                 <<".", "/">>}
                  /\ EntryField(e, 3) = <<>> => outdir = <<".", "/">>
                  /\ u_tables.uids[u] =
                         (IF EntryField(e, 4) = <<>> THEN None
                          ELSE EntryField(e, 4))
                  /\ u_tables.gids[u] =
                         (IF EntryField(e, 5) = <<>> THEN None
                          ELSE EntryField(e, 5))

\* C16 witness: two tenants, one with an output directory given without
\* its '/' and a uid but no gid, the other with no field but its name
TenantTablesWitness ==
    /\ u_pc = "done"
    /\ DOMAIN u_tables.tokens = {<<"a">>, <<"b">>}
    /\ u_tables.outdirs[<<"b">>] = <<"e", "/">>
    /\ u_tables.uids[<<"b">>] = <<"9">>
    /\ u_tables.gids[<<"b">>] = None
    /\ u_tables.outdirs[<<"a">>] = <<".", "/">>
    /\ u_tables.tokens[<<"a">>] = <<>>

(***************************************************************************)
(* Properties of the presets                                               *)
(***************************************************************************)
\* the characters of a file name after its last '.'
ExtensionOf(name) ==
    LET dots == {k \in 1..Len(name) : name[k] = "."}
        last == CHOOSE k \in dots : \A j \in dots : j <= k
    IN  IF dots = {} THEN <<>> ELSE SubSeq(name, last + 1, Len(name))

\* C11: Scenario C. For every preset token that is not a known preset and
\* every configured default preset, the job of a submission that succeeded
\* uses the default preset as a whole: its format selector, its
\* post-processing steps and its output extension are those of the default
\* preset.
PresetFallbackWhole ==
    \A i \in 1..Len(calls) :
        (/\ calls[i].preset \notin DOMAIN FORMATS
         /\ calls[i].pc = "returned"
         /\ results[i].success)
            => /\ ydl_params[i].format = FORMATS[default_preset]
               /\ ydl_params[i].postprocessors =
                      DictGet(InitialPostprocessors, default_preset, <<>>)
               /\ ExtensionOf(results[i].outfile) = EXTENSIONS[default_preset]

\* C19: preset immutability. No sequence of submissions, with known or
\* unknown preset tokens, changes a preset table: POSTPROCESSORS stays the
\* mapping built at startup (FORMATS and EXTENSIONS are never assigned).
PresetsImmutable == POSTPROCESSORS = InitialPostprocessors

(***************************************************************************)
(* Properties of the worker                                                *)
(***************************************************************************)
\* the records of the worker's log reporting a finished download
DownloadedRecords == {k \in 1..Len(dl_log) : dl_log[k][1] = "Downloaded"}

\* C12: Scenario D. When two jobs resolve to the same destination path and
\* both are processed to completion, the worker has deleted the file left by
\* the first before the download of the second writes (the file was removed
\* between the two reports, and no file is at the destination when a
\* download starts), and when the second has completed the path holds the
\* content of the second.
OverwriteSamePath ==
    /\ w_pc = "download" => w_outfile \notin DOMAIN files
    /\ \A k1, k2 \in DownloadedRecords :
          (k1 < k2 /\ dl_log[k1][3] = dl_log[k2][3]) =>
              \E r \in (k1 + 1)..(k2 - 1) :
                  /\ dl_log[r][1] = "Removing"
                  /\ dl_log[r][3] = dl_log[k2][3]
    /\ (dl_log # <<>> /\ dl_log[Len(dl_log)][1] = "Downloaded") =>
          LET rec == dl_log[Len(dl_log)]
          IN  /\ rec[3] \in DOMAIN files
              /\ files[rec[3]].content =
                     <<rec[2], calls[rec[2][2]].url>>

\* C12 witness: two jobs of different calls were downloaded to the same
\* path, and the path holds the content of the second
OverwriteSamePathWitness ==
    \E k1, k2 \in DownloadedRecords :
        /\ k1 < k2
        /\ k2 = Len(dl_log)
        /\ dl_log[k1][3] = dl_log[k2][3]
        /\ dl_log[k1][2] # dl_log[k2][2]
        /\ files[dl_log[k2][3]].content[1] = dl_log[k2][2]

\* the job with this ydl has been processed to its end
ProcessedRef(ydl) == \E k \in EndRecords : dl_log[k][2] = ydl

\* C17 as stated: shutdown via the sentinel drops the jobs still in the
\* queue. The jobs queued but not yet started when the sentinel is put are
\* never taken by the worker.
SentinelDropsQueued ==
    \A k \in 1..Len(q_at_shutdown) :
        \A g \in 1..Len(get_order) : get_order[g] # q_at_shutdown[k]

\* C17 as amended: the sentinel is put behind the jobs still in the queue.
\* When the worker takes the sentinel, the job that was in flight and every
\* job that was queued when the sentinel was put have been processed to
\* their end.
SentinelAfterQueued ==
    SentinelDequeued =>
        /\ \A k \in 1..Len(q_at_shutdown) : ProcessedRef(q_at_shutdown[k])
        /\ \A i \in 1..Len(calls) : WasPut(i) => Processed(i)

\* C17 witness: the worker has taken the sentinel; one job was in flight
\* and another queued when the sentinel was put, and both were downloaded
SentinelAfterQueuedWitness ==
    /\ SentinelDequeued
    /\ Len(q_at_shutdown) = 1
    /\ Len(get_order) = 3
    /\ \A k \in 1..2 :
          \E d \in DownloadedRecords : dl_log[d][2] = get_order[k]

\* C18: ownership change. For every job of a tenant that has a uid, with or
\* without a gid, whose download succeeds, the worker changes the owner of
\* the file and reports the download: the job is reported as failed only
\* when the extractor or the operating system failed (DownloadError,
\* OSError), and a reported download has left the file owned by the
\* tenant's uid.
OwnershipChanged ==
    /\ \A k \in EndRecords :
          (/\ dl_log[k][2] # None
           /\ UIDS[calls[dl_log[k][2][2]].username] # None
           /\ dl_log[k][1] = "Exception")
              => dl_log[k][3] \in {<<"DownloadError">>, <<"OSError">>}
    /\ (dl_log # <<>> /\ dl_log[Len(dl_log)][1] = "Downloaded") =>
          LET rec == dl_log[Len(dl_log)]
              uid == UIDS[calls[rec[2][2]].username]
          IN  uid # None => files[rec[3]].owner[1] = uid

(***************************************************************************)
(* Properties of the routes                                                *)
(***************************************************************************)
\* the request being handled, or handled last, is to result_file and has
\* been answered
ResultAnswered == r_req.route = "result" /\ r_resp # NoResponse

\* C13: path traversal containment. For every requested file name, a file
\* that result_file serves is the regular file named by the final path
\* component of the request, directly inside the tenant's output directory;
\* and a download request (download = 'true', the default) is answered 404
\* when no regular file of that base name is in the tenant's directory or
\* the username is unknown.
TraversalContained ==
    ResultAnswered =>
        LET u == r_req.username
            base == PathName(r_req.filename)
        IN  /\ r_resp.served # <<>> =>
                  /\ u \in DOMAIN OUTDIRS
                  /\ r_resp.served \in DOMAIN files
                  /\ PurePath(r_resp.served).parts =
                         PurePath(OUTDIRS[u]).parts \o <<base>>
                  /\ base \notin {<<>>, <<".">>, <<".", ".">>}
            /\ (/\ DictGet(r_req.params, "download", "true") = "true"
                /\ \/ u \notin DOMAIN OUTDIRS
                   \/ PathJoin(OUTDIRS[u], base) \notin DOMAIN files)
                  => r_resp.status = 404

\* the username and the token of the request are a configured pair
ValidCredentials ==
    /\ r_req.username \in DOMAIN TOKENS
    /\ "token" \in DOMAIN r_req.params
    /\ TOKENS[r_req.username] = r_req.params.token

\* C14: authorization uniform failure. is_authorized returns False for an
\* unknown username and for a known username with a token that does not
\* match, both through the delay, which has run before it returns; when the
\* username exists and the token matches it returns True without the delay.
AuthorizationUniform ==
    /\ r_pc = "sleep" => ~ValidCredentials /\ ~r_slept
    /\ r_pc = "denied" => ~ValidCredentials /\ r_slept
    /\ r_pc \in {"authorized", "submit_download"} =>
          ValidCredentials /\ ~r_slept
    /\ (r_req.route = "submit" /\ r_pc = "idle") =>
          (r_slept <=> ~ValidCredentials)

\* C14 witness: a request of a known username with a wrong token has been
\* denied after the delay
AuthorizationUniformWitness ==
    /\ r_pc = "denied"
    /\ r_req.username \in DOMAIN TOKENS
    /\ "token" \in DOMAIN r_req.params
    /\ r_slept

\* the request being handled is a POST to submit with a configured
\* username, its token, and a url that is not empty
MaySubmit ==
    /\ r_req.route = "submit"
    /\ ValidCredentials
    /\ "url" \in DOMAIN r_req.params
    /\ r_req.params.url # <<>>

\* C15: submission requires authorization. A call of submit_download (and
\* with it ydl.extract_info) begins, and a job is put on the queue, only
\* while a request with an existing username, the matching token and a
\* non-empty url is being handled; for every other request, whatever its
\* return_json, no call begins and the queue stays as it is.
SubmitGuarded ==
    /\ [][(calls' # calls \/ DL_Q' # DL_Q) => MaySubmit]_vars
    /\ [](\A i \in 1..Len(calls) :
             /\ calls[i].username \in DOMAIN TOKENS
             /\ calls[i].url # <<>>
             /\ calls[i].url # None)
    /\ [](\A k \in 1..Len(DL_Q) : DL_Q[k][1][2] \in 1..Len(calls))

\* C15 witness: one request has put its job on the queue, and a later
\* request with return_json=false was answered 401
SubmitGuardedWitness ==
    /\ Len(DL_Q) = 1
    /\ Len(calls) = 1
    /\ r_pc = "idle"
    /\ r_resp = Response(401, "Not authorized", <<>>)

=============================================================================
